---- MODULE Spec2Model ----
(***************************************************************************)
(* A model of the symbolic-algebra engine of src/main.py: the expression   *)
(* tree (nine dataclass variants), its text rendering (__repr__), the      *)
(* equality Python really dispatches to (dataclass __eq__, Constant's own  *)
(* __eq__), simplify, derive and the factor grouping.                      *)
(*                                                                         *)
(* Every node is a record of one shape [t, k, n, a]:                       *)
(*   t  the class name, or "Error" for a raised exception                  *)
(*   k  Constant: the kind of its value ("int", "float", "negzero" for the *)
(*      float -0.0, "e" for math.e, "expr" when the value is itself an     *)
(*      expression tree); Variable: its name; Logarithm: the kind of its   *)
(*      base ("e" or "int"); Error: the exception's class                  *)
(*   n  Constant: the integral value; Logarithm: an "int" base             *)
(*   a  the tuple of children                                              *)
(* Floats are modelled where their value is integral (every float that     *)
(* true division of divisible values yields); an operation whose result is *)
(* another float, or whose magnitude exceeds MaxNum, yields the marker     *)
(* Error "Unmodelled", and the operations of the specifications are not    *)
(* taken on such inputs.                                                   *)
(***************************************************************************)
EXTENDS Integers, Sequences, FiniteSets, TLC

VARIABLES expr, other, op, out

vars == <<expr, other, op, out>>

(* ---------------------------------------------------------------- bounds *)
\* Largest magnitude of a modelled number.
MaxNum == 40000
\* Depth of nested simplify/derive calls at which the interpreter gives up
\* (RecursionError); it stands for sys.getrecursionlimit().
MaxDepth == 14
\* Largest number of nodes of an input tree.
MaxNodes == 4
\* The same for the trees of integer arithmetic, and for each factor of the
\* products of sums.
MaxArithNodes == 5
MaxSumNodes == 5
\* Largest number of nodes of a product of constants and variables.
MaxProdNodes == 7
\* Largest magnitude of the integers assigned to the variables.
MaxVal == 1
\* Largest number of nodes of an operand of a comparison.
MaxEqNodes == 5

(* ------------------------------------------------------------ the nodes *)
Node(t, k, n, a) == [t |-> t, k |-> k, n |-> n, a |-> a]

Int_(n) == Node("Constant", "int", n, <<>>)
Float_(n) == Node("Constant", "float", n, <<>>)
NegZero == Node("Constant", "negzero", 0, <<>>)
Euler == Node("Constant", "e", 0, <<>>)
ConstantOf(e) == Node("Constant", "expr", 0, <<e>>)
Variable(name) == Node("Variable", name, 0, <<>>)
Add(l, r) == Node("Add", "", 0, <<l, r>>)
Subtract(l, r) == Node("Subtract", "", 0, <<l, r>>)
Multiply(l, r) == Node("Multiply", "", 0, <<l, r>>)
Divide(l, r) == Node("Divide", "", 0, <<l, r>>)
Power(b, x) == Node("Power", "", 0, <<b, x>>)
Minus(v) == Node("Minus", "", 0, <<v>>)
Logarithm(v) == Node("Logarithm", "e", 0, <<v>>)
LogarithmBase(v, b) == Node("Logarithm", "int", b, <<v>>)

Error(k) == Node("Error", k, 0, <<>>)
ZeroDivisionError == Error("ZeroDivisionError")
TypeError == Error("TypeError")
RecursionError == Error("RecursionError")
NotImplementedError == Error("Derivation not implemented")
Unmodelled == Error("Unmodelled")
None == Node("None", "", 0, <<>>)

IsError(e) == e.t = "Error"
IsConstant(e) == e.t = "Constant"
IsNumber(e) == e.t = "Constant" /\ e.k # "expr"
IsVariable(e) == e.t = "Variable"
IsMultiply(e) == e.t = "Multiply"
IsMinus(e) == e.t = "Minus"
IsPower(e) == e.t = "Power"
IsAdd(e) == e.t = "Add"
IsSubtract(e) == e.t = "Subtract"

(* --------------------------------------------------- Python's numbers *)
\* The arithmetic below is Python's on int and float operands, for the
\* numbers the model holds (a and b are Constant nodes that hold numbers).
Abs(n) == IF n < 0 THEN -n ELSE n
IsZero(c) == c.k # "e" /\ c.n = 0
\* The sign bit (an int 0 converts to +0.0).
NegSign(c) == c.k = "negzero" \/ (c.k # "e" /\ c.n < 0)
IsOdd(n) == n % 2 = 1
MkFloat(n, neg) == IF n = 0 THEN (IF neg THEN NegZero ELSE Float_(0)) ELSE Float_(n)
Capped(c) == IF Abs(c.n) > MaxNum THEN Unmodelled ELSE c

\* a == b on numbers: 1 == 1.0 and 0 == -0.0 are True.
NumEq(a, b) ==
    IF a.k = "e" \/ b.k = "e" THEN a.k = b.k ELSE a.n = b.n

\* a * b
NumMul(a, b) ==
    IF a.k = "e" \/ b.k = "e"
    THEN LET o == IF a.k = "e" THEN b ELSE a IN
         IF o.k = "e" THEN Unmodelled
         ELSE IF o.n = 0 THEN MkFloat(0, NegSign(o))
         ELSE IF o.n = 1 THEN Euler
         ELSE Unmodelled
    ELSE IF a.k = "int" /\ b.k = "int" THEN Capped(Int_(a.n * b.n))
    ELSE Capped(MkFloat(a.n * b.n, NegSign(a) # NegSign(b)))

\* a + b
NumAdd(a, b) ==
    IF a.k = "e" \/ b.k = "e"
    THEN LET o == IF a.k = "e" THEN b ELSE a IN
         IF o.k # "e" /\ o.n = 0 THEN Euler ELSE Unmodelled
    ELSE IF a.k = "int" /\ b.k = "int" THEN Capped(Int_(a.n + b.n))
    ELSE Capped(MkFloat(a.n + b.n, a.k = "negzero" /\ b.k = "negzero"))

RECURSIVE PowAcc(_, _, _)
\* acc * b ** x for x >= 0, stopping once the magnitude passes MaxNum.
PowAcc(b, x, acc) ==
    IF x = 0 \/ Abs(acc) > MaxNum THEN acc ELSE PowAcc(b, x - 1, acc * b)
IntPow(b, x) ==
    IF x = 0 THEN 1
    ELSE IF b = 0 THEN 0
    ELSE IF b = 1 THEN 1
    ELSE IF b = -1 THEN (IF IsOdd(x) THEN -1 ELSE 1)
    ELSE PowAcc(b, x, 1)

\* a ** b
NumPow(a, b) ==
    IF a.k = "e" \/ b.k = "e"
    THEN IF b.k # "e" /\ b.n = 0 THEN Float_(1)
         ELSE IF a.k = "e" /\ b.k # "e" /\ b.n = 1 THEN Euler
         ELSE IF a.k # "e" /\ a.n = 1 THEN Float_(1)
         ELSE IF a.k # "e" /\ a.n = 0 THEN Float_(0)
         ELSE Unmodelled
    ELSE IF a.k = "int" /\ b.k = "int" /\ b.n >= 0 THEN Capped(Int_(IntPow(a.n, b.n)))
    ELSE \* the result is a float
         IF b.n = 0 THEN Float_(1)
         ELSE IF a.n = 0
              THEN IF b.n < 0 THEN ZeroDivisionError
                   ELSE MkFloat(0, a.k = "negzero" /\ IsOdd(b.n))
         ELSE IF b.n > 0 THEN Capped(Float_(IntPow(a.n, b.n)))
         ELSE IF a.n = 1 THEN Float_(1)
         ELSE IF a.n = -1 THEN Float_(IF IsOdd(b.n) THEN -1 ELSE 1)
         ELSE Unmodelled

\* a % b == 0: "yes", "no", or "error" (modulo by zero).
ModIsZero(a, b) ==
    IF IsZero(b) THEN "error"
    ELSE IF b.k = "e" THEN (IF a.k = "e" \/ a.n = 0 THEN "yes" ELSE "no")
    ELSE IF a.k = "e" THEN "no"
    ELSE IF a.n % Abs(b.n) = 0 THEN "yes" ELSE "no"

\* a / b (true division) where b divides a: always a float.
NumDiv(a, b) ==
    IF b.k = "e" THEN (IF a.k = "e" THEN Float_(1) ELSE MkFloat(0, NegSign(a)))
    ELSE MkFloat((Abs(a.n) \div Abs(b.n)) * (IF NegSign(a) # NegSign(b) THEN -1 ELSE 1),
                 NegSign(a) # NegSign(b))

(* ------------------------------------------------------------ rendering *)
RECURSIVE Render(_)
\* str(e): the __repr__ of each class.
Render(e) ==
    CASE e.t = "Constant" ->
            (CASE e.k = "int" -> ToString(e.n)
               [] e.k = "float" -> ToString(e.n) \o ".0"
               [] e.k = "negzero" -> "-0.0"
               [] e.k = "e" -> "e"
               [] OTHER -> Render(e.a[1]))
      [] e.t = "Variable" -> e.k
      [] e.t = "Multiply" ->
            LET right == IF IsAdd(e.a[2]) \/ IsSubtract(e.a[2])
                         THEN "(" \o Render(e.a[2]) \o ")" ELSE Render(e.a[2])
                left == IF IsAdd(e.a[1]) \/ IsSubtract(e.a[1])
                        THEN "(" \o Render(e.a[1]) \o ")" ELSE Render(e.a[1])
            IN left \o " * " \o right
      [] e.t = "Add" -> Render(e.a[1]) \o " + " \o Render(e.a[2])
      [] e.t = "Minus" ->
            IF IsConstant(e.a[1]) THEN "-" \o Render(e.a[1]) ELSE "- " \o Render(e.a[1])
      [] e.t = "Subtract" -> Render(e.a[1]) \o " - " \o Render(e.a[2])
      [] e.t = "Divide" -> Render(e.a[1]) \o " / " \o Render(e.a[2])
      [] e.t = "Logarithm" ->
            IF e.k = "e" THEN "ln(" \o Render(e.a[1]) \o ")"
            ELSE "log(" \o Render(e.a[1]) \o ", " \o ToString(e.n) \o ")"
      [] e.t = "Power" -> Render(e.a[1]) \o " ** " \o Render(e.a[2])
      [] OTHER -> e.t \o ": " \o e.k

(* ------------------------------------------------------------- equality *)
RECURSIVE Eq(_, _)
\* a == b as Python dispatches it.  @dataclass gives every class that does
\* not define __eq__ in its own body a generated __eq__ (same class and
\* equal field tuples, else NotImplemented), which hides the textual
\* Expression.__eq__; Constant keeps its own.  A Constant is tried as the
\* reflected operand when the left operand's __eq__ returns NotImplemented.
Eq(a, b) ==
    IF IsConstant(a)
    THEN IF IsConstant(b)
         THEN IF a.k = "expr" /\ b.k = "expr" THEN Eq(a.a[1], b.a[1])
              ELSE IF a.k = "expr" \/ b.k = "expr" THEN FALSE
              ELSE NumEq(a, b)
         ELSE a.k = "expr" /\ Eq(a.a[1], b)
    ELSE IF IsConstant(b) THEN b.k = "expr" /\ Eq(b.a[1], a)
    ELSE /\ a.t = b.t
         /\ a.k = b.k
         /\ a.n = b.n
         /\ Len(a.a) = Len(b.a)
         /\ \A i \in 1..Len(a.a) : Eq(a.a[i], b.a[i])

\* e == c for a bare number c (left == 0, exponent == 1, value == base).
EqNum(e, c) == IsNumber(e) /\ NumEq(e, c)

\* What the textual Expression.__eq__ of the base class computes.
TextEq(a, b) == Render(a) = Render(b)

\* A Constant's value as an operand of an arithmetic operator: an expression
\* value as it is, a number coerced to a Constant by the operator helper.
Operand(c) == IF c.k = "expr" THEN c.a[1] ELSE c

(* ------------------------------------------------------------- simplify *)
RECURSIVE Simplify(_, _)
RECURSIVE GetMultiplicationFactors(_)
RECURSIVE GroupKeys(_, _)
RECURSIVE SumExponents(_, _, _)
RECURSIVE GroupPowers(_, _, _, _)
RECURSIVE ProductOf(_, _, _)

\* Minus(Simplify(...)): the wrapper is built only if the call returned.
MinusOf(r) == IF IsError(r) THEN r ELSE Minus(r)

\* Multiply.get_factors and get_multiplication_factors: the right operand's
\* factors come first.
GetMultiplicationFactors(e) ==
    IF IsMultiply(e)
    THEN GetMultiplicationFactors(e.a[2]) \o GetMultiplicationFactors(e.a[1])
    ELSE IF IsPower(e) THEN <<e>>
    ELSE <<Power(e, Int_(1))>>
GetFactors(e) == GetMultiplicationFactors(e.a[2]) \o GetMultiplicationFactors(e.a[1])

\* groupby: the keys str(f.base) in the order of their first occurrence
\* (a dict keeps insertion order).
GroupKeys(fs, i) ==
    IF i > Len(fs) THEN <<>>
    ELSE LET k == Render(fs[i].a[1]) IN
         IF \E j \in 1..(i - 1) : Render(fs[j].a[1]) = k
         THEN GroupKeys(fs, i + 1)
         ELSE <<k>> \o GroupKeys(fs, i + 1)
GroupOf(fs, k) == SelectSeq(fs, LAMBDA f : Render(f.a[1]) = k)

\* exponent = Constant(0); for f in fs: exponent += f.exponent
SumExponents(fs, i, acc) ==
    IF i > Len(fs) THEN acc ELSE SumExponents(fs, i + 1, Add(acc, fs[i].a[2]))

\* The loop of group_multiplication_factors over the groups: the powers
\* Power(fs[0].base, exponent.simplify()), or the first error raised.
GroupPowers(fs, keys, i, d) ==
    IF i > Len(keys) THEN <<>>
    ELSE LET g == GroupOf(fs, keys[i])
             x == Simplify(SumExponents(g, 1, Int_(0)), d + 1)
         IN IF IsError(x) THEN <<x>>
            ELSE LET rest == GroupPowers(fs, keys, i + 1, d)
                 IN IF Len(rest) > 0 /\ IsError(rest[1]) THEN rest
                    ELSE <<Power(g[1].a[1], x)>> \o rest

\* result = Constant(1); result = result * p for each power
ProductOf(ps, i, acc) ==
    IF i > Len(ps) THEN acc ELSE ProductOf(ps, i + 1, Multiply(acc, ps[i]))

\* A grouping without the progress test: the rebuilt product is simplified
\* again whether or not two factors were merged.
GroupReducedAlways(num_factors, len) == TRUE

\* The test that grouping made progress (num_factors < len(starting_factors)).
GroupReduced(num_factors, len) == num_factors < len

GroupMultiplicationFactors(e, d) ==
    LET starting_factors == GetFactors(e)
        keys == GroupKeys(starting_factors, 1)
        ps == GroupPowers(starting_factors, keys, 1, d)
    IN IF Len(ps) > 0 /\ IsError(ps[1]) THEN ps[1]
       ELSE IF GroupReduced(Len(keys), Len(starting_factors))
            THEN Simplify(ProductOf(ps, 1, Int_(1)), d + 1)
            ELSE e

\* Constant(right.value * left.value)
ConstantMul(r, l) ==
    IF IsNumber(r) /\ IsNumber(l) THEN NumMul(r, l)
    ELSE ConstantOf(Multiply(Operand(r), Operand(l)))
\* Constant(left.value + right.value)
ConstantAdd(l, r) ==
    IF IsNumber(l) /\ IsNumber(r) THEN NumAdd(l, r)
    ELSE ConstantOf(Add(Operand(l), Operand(r)))
\* Constant(base.value ** exponent.value)
ConstantPow(b, x) ==
    IF IsNumber(b) /\ IsNumber(x) THEN NumPow(b, x)
    ELSE ConstantOf(Power(Operand(b), Operand(x)))

\* Multiply.simplify after its operands were simplified to left and right.
SimplifyMultiply(left, right, d) ==
    IF EqNum(left, Int_(0)) THEN Int_(0)
    ELSE IF EqNum(left, Int_(1)) THEN right
    ELSE IF IsConstant(right) /\ IsConstant(left) THEN ConstantMul(right, left)
    ELSE IF IsConstant(right) THEN Simplify(Multiply(right, left), d + 1)
    ELSE IF IsConstant(left) /\ IsMultiply(right) /\ IsConstant(right.a[1])
         THEN Simplify(Multiply(Multiply(left, right.a[1]), right.a[2]), d + 1)
    ELSE IF IsMinus(left) /\ IsMinus(right)
         THEN Simplify(Multiply(left.a[1], right.a[1]), d + 1)
    ELSE IF IsMinus(left) /\ ~IsMinus(right)
         THEN MinusOf(Simplify(Multiply(left.a[1], right), d + 1))
    ELSE IF IsMinus(right) /\ ~IsMinus(left)
         THEN MinusOf(Simplify(Multiply(left, right.a[1]), d + 1))
    ELSE IF IsPower(right) /\ IsPower(left) /\ Eq(right.a[1], left.a[1])
         THEN Simplify(Power(right.a[1], Add(right.a[2], left.a[2])), d + 1)
    ELSE GroupMultiplicationFactors(Multiply(left, right), d)

SimplifyAdd(left, right) ==
    IF EqNum(left, Int_(0)) THEN right
    ELSE IF EqNum(right, Int_(0)) THEN left
    ELSE IF IsConstant(left) /\ IsConstant(right) THEN ConstantAdd(left, right)
    ELSE Add(left, right)

\* Minus.simplify: the test is on the operand before simplification, and
\* -1 * value multiplies the Constant object, not its number: __rmul__
\* builds Multiply(Constant(-1), value).
SimplifyMinus(original, value) ==
    IF IsConstant(original) THEN ConstantOf(Multiply(Int_(-1), value))
    ELSE Minus(value)

SimplifySubtract(left, right) ==
    IF EqNum(left, Int_(0)) THEN Minus(right)
    ELSE IF EqNum(right, Int_(0)) THEN left
    ELSE Subtract(left, right)

\* The Constant/Constant case of Divide.simplify: the node it returns, an
\* error, or None when neither value divides the other (the code falls
\* through to the later cases).
DivideConstants(dividend, divisor) ==
    IF ~IsNumber(dividend) \/ ~IsNumber(divisor) THEN TypeError
    ELSE LET m1 == ModIsZero(dividend, divisor) IN
         IF m1 = "error" THEN ZeroDivisionError
         ELSE IF m1 = "yes" THEN NumDiv(dividend, divisor)
         ELSE LET m2 == ModIsZero(divisor, dividend) IN
              IF m2 = "error" THEN ZeroDivisionError
              ELSE IF m2 = "yes" THEN Divide(Int_(1), NumDiv(divisor, dividend))
              ELSE None

SimplifyDivideRest(dividend, divisor, d) ==
    IF IsConstant(dividend) /\ IsVariable(divisor)
    THEN Simplify(Multiply(dividend, Power(divisor, Int_(-1))), d + 1)
    ELSE IF IsMinus(dividend) /\ IsMinus(divisor)
         THEN Simplify(Divide(dividend.a[1], divisor.a[1]), d + 1)
    ELSE IF IsMinus(dividend) /\ ~IsMinus(divisor)
         THEN MinusOf(Simplify(Divide(dividend.a[1], divisor), d + 1))
    ELSE IF ~IsMinus(dividend) /\ IsMinus(divisor)
         THEN MinusOf(Simplify(Divide(dividend, divisor.a[1]), d + 1))
    ELSE Divide(dividend, divisor)

SimplifyDivide(dividend, divisor, d) ==
    IF IsConstant(dividend) /\ IsConstant(divisor)
    THEN LET c == DivideConstants(dividend, divisor) IN
         IF c = None THEN SimplifyDivideRest(dividend, divisor, d) ELSE c
    ELSE SimplifyDivideRest(dividend, divisor, d)

SimplifyLogarithm(e, value) ==
    IF EqNum(value, IF e.k = "e" THEN Euler ELSE Int_(e.n)) THEN Int_(1)
    ELSE Node("Logarithm", e.k, e.n, <<value>>)

SimplifyPower(base, exponent) ==
    IF IsConstant(base) /\ IsConstant(exponent) THEN ConstantPow(base, exponent)
    ELSE IF IsConstant(exponent) /\ EqNum(exponent, Int_(0)) THEN Int_(1)
    ELSE IF IsConstant(exponent) /\ EqNum(exponent, Int_(1)) THEN base
    ELSE Power(base, exponent)

\* e.simplify(), called at nesting depth d.  The operands are simplified
\* left to right and the first exception raised propagates.
Simplify(e, d) ==
    IF d > MaxDepth THEN RecursionError
    ELSE IF e.t \in {"Constant", "Variable"} THEN e
    ELSE LET first == Simplify(e.a[1], d + 1) IN
         IF IsError(first) THEN first
         ELSE IF e.t = "Minus" THEN SimplifyMinus(e.a[1], first)
         ELSE IF e.t = "Logarithm" THEN SimplifyLogarithm(e, first)
         ELSE LET second == Simplify(e.a[2], d + 1) IN
              IF IsError(second) THEN second
              ELSE CASE e.t = "Multiply" -> SimplifyMultiply(first, second, d)
                     [] e.t = "Add" -> SimplifyAdd(first, second)
                     [] e.t = "Subtract" -> SimplifySubtract(first, second)
                     [] e.t = "Divide" -> SimplifyDivide(first, second, d)
                     [] e.t = "Power" -> SimplifyPower(first, second)

(* --------------------------------------------------------------- derive *)
RECURSIVE Derive(_, _, _)
\* derive(e, var), called at nesting depth d.
DeriveSimplified(e, var, d) ==
    CASE e.t = "Constant" -> Int_(0)
      [] e.t = "Variable" -> IF e.k = var.k THEN Int_(1) ELSE Int_(0)
      [] e.t \in {"Multiply", "Add", "Subtract", "Divide"} ->
            LET dl == Derive(e.a[1], var, d + 1) IN
            IF IsError(dl) THEN dl
            ELSE LET dr == Derive(e.a[2], var, d + 1) IN
                 IF IsError(dr) THEN dr
                 ELSE (CASE e.t = "Multiply" ->
                              Simplify(Add(Multiply(dl, e.a[2]), Multiply(e.a[1], dr)), d + 1)
                         [] e.t = "Add" -> Simplify(Add(dl, dr), d + 1)
                         [] e.t = "Subtract" -> Simplify(Subtract(dl, dr), d + 1)
                         [] e.t = "Divide" ->
                              Simplify(Divide(Subtract(Multiply(dl, e.a[2]), Multiply(e.a[1], dr)),
                                              Power(e.a[2], Int_(2))), d + 1))
      [] e.t = "Logarithm" ->
            LET dv == Derive(e.a[1], var, d + 1) IN
            IF IsError(dv) THEN dv
            ELSE Simplify(Multiply(Divide(Int_(1), e.a[1]), dv), d + 1)
      [] e.t = "Power" ->
            LET dx == Derive(Multiply(e.a[2], Logarithm(e.a[1])), var, d + 1) IN
            IF IsError(dx) THEN dx
            ELSE Simplify(Multiply(dx, e), d + 1)
      [] OTHER -> NotImplementedError

Derive(e, var, d) ==
    IF d > MaxDepth THEN RecursionError
    ELSE LET s == Simplify(e, d + 1) IN
         IF IsError(s) THEN s ELSE DeriveSimplified(s, var, d)

(* ---------------------------------------------------- the input trees *)
\* Every tree of exactly n nodes over the given leaves, the unary classes
\* Minus and Logarithm (natural base) and the given binary classes.
RECURSIVE TreesOfSize(_, _, _, _)
TreesOfSize(n, leaves, unary, binary) ==
    IF n = 1 THEN leaves
    ELSE {Node(t, IF t = "Logarithm" THEN "e" ELSE "", 0, <<v>>) :
              t \in unary, v \in TreesOfSize(n - 1, leaves, unary, binary)}
         \cup UNION {{Node(t, "", 0, <<l, r>>) :
                          t \in binary,
                          l \in TreesOfSize(i, leaves, unary, binary),
                          r \in TreesOfSize(n - 1 - i, leaves, unary, binary)} :
                     i \in 1..(n - 2)}
TreesUpTo(n, leaves, unary, binary) ==
    UNION {TreesOfSize(i, leaves, unary, binary) : i \in 1..n}

x == Variable("x")
y == Variable("y")
z == Variable("z")
Vars == {x, y}
True_ == Node("bool", "True", 0, <<>>)
False_ == Node("bool", "False", 0, <<>>)

\* The nine variants.
Leaves == {Int_(0), Int_(1), Int_(2), Int_(-1), Euler, x, y}
Trees(n) == TreesUpTo(n, Leaves, {"Minus", "Logarithm"},
                     {"Add", "Subtract", "Multiply", "Divide", "Power"})

\* Integer arithmetic: Constant, Variable, Add, Subtract, Minus, Multiply;
\* all such trees up to n nodes, and the products of two sums or differences
\* of up to m nodes each.
ArithLeaves == {Int_(0), Int_(2), Int_(-1), x, y}
Sums(m) == TreesUpTo(m, {x, y, z}, {}, {"Add", "Subtract"})
ArithTrees(n, m) ==
    TreesUpTo(n, ArithLeaves, {"Minus"}, {"Add", "Subtract", "Multiply"})
    \cup {Multiply(l, r) : l \in Sums(m), r \in Sums(m)}

\* Products only: Constant, Variable, Multiply.
ProdTrees(n) == TreesUpTo(n, {Int_(0), Int_(1), Int_(2), Int_(3), x, y}, {}, {"Multiply"})

\* The operands of a comparison.
EqTrees(n) == TreesUpTo(n, {x, y, z, Int_(1), Float_(1)}, {}, {"Add", "Multiply"})

(* ------------------------------------------------------- the operations *)
\* A caller holds a tree it built (expr), calls simplify or derive on it and
\* keeps the result (out); op is the last call made.
Init == expr \in Trees(MaxNodes) /\ other = None /\ op = "new" /\ out = None
InitArith == expr \in ArithTrees(MaxArithNodes, MaxSumNodes) /\ other = None /\ op = "new" /\ out = None
InitProd == expr \in ProdTrees(MaxProdNodes) /\ other = None /\ op = "new" /\ out = None
InitEq == expr \in EqTrees(MaxEqNodes) /\ other \in EqTrees(MaxEqNodes) /\ op = "new" /\ out = None

\* out = expr.simplify()
DoSimplify ==
    /\ op = "new"
    /\ LET r == Simplify(expr, 0) IN r # Unmodelled /\ out' = r
    /\ op' = "simplify"
    /\ UNCHANGED <<expr, other>>

\* expr = out; out = expr.simplify(): simplify applied to its own result
DoResimplify ==
    /\ op = "simplify"
    /\ ~IsError(out)
    /\ LET r == Simplify(out, 0) IN r # Unmodelled /\ out' = r
    /\ expr' = out
    /\ op' = "resimplify"
    /\ UNCHANGED other

\* out = derive(expr, var)
DoDerive(var) ==
    /\ op = "new"
    /\ LET r == Derive(expr, var, 0) IN r # Unmodelled /\ out' = r
    /\ other' = var
    /\ op' = "derive"
    /\ UNCHANGED expr

\* out = (expr == other)
DoCompare ==
    /\ op = "new"
    /\ out' = IF Eq(expr, other) THEN True_ ELSE False_
    /\ op' = "compare"
    /\ UNCHANGED <<expr, other>>

Next == DoSimplify \/ DoResimplify \/ \E var \in Vars : DoDerive(var)
NextArith == DoSimplify \/ DoResimplify
NextEq == DoCompare

Spec == Init /\ [][Next]_vars
SpecArith == InitArith /\ [][NextArith]_vars
SpecProd == InitProd /\ [][NextArith]_vars
SpecEq == InitEq /\ [][NextEq]_vars
(* ------------------------------------------------- reading the results *)
RECURSIVE Subterms(_)
\* Every node of a tree, the tree a Constant may hold as its value included.
Subterms(e) == {e} \cup UNION {Subterms(e.a[i]) : i \in 1..Len(e.a)}

RECURSIVE Flat(_)
\* The factors of a product, nested Multiply nodes flattened, left to right.
Flat(e) == IF IsMultiply(e) THEN Flat(e.a[1]) \o Flat(e.a[2]) ELSE <<e>>

\* The products of a tree: its Multiply nodes that are not an operand of a
\* Multiply node.
Products(e) ==
    {m \in Subterms(e) : IsMultiply(m)}
    \ UNION {{m.a[1], m.a[2]} : m \in {m \in Subterms(e) : IsMultiply(m)}}

\* The rendered base of a factor (a factor that is no Power is its own base).
BaseText(f) == IF IsPower(f) THEN Render(f.a[1]) ELSE Render(f)

Occurs(var, e) == var \in Subterms(e)

\* The value of a tree of integer arithmetic under an assignment of integers
\* to the variables, where it has one.
RECURSIVE Eval(_, _)
RECURSIVE Evaluable(_, _)
Evaluable(e, env) ==
    CASE e.t = "Constant" -> e.k = "int" \/ (e.k = "expr" /\ Evaluable(e.a[1], env))
      [] e.t = "Variable" -> e.k \in DOMAIN env
      [] e.t \in {"Add", "Subtract", "Multiply"} ->
            Evaluable(e.a[1], env) /\ Evaluable(e.a[2], env)
      [] e.t = "Minus" -> Evaluable(e.a[1], env)
      [] e.t = "Power" ->
            Evaluable(e.a[1], env) /\ Evaluable(e.a[2], env) /\ Eval(e.a[2], env) >= 0
      [] OTHER -> FALSE
Eval(e, env) ==
    CASE e.t = "Constant" -> IF e.k = "int" THEN e.n ELSE Eval(e.a[1], env)
      [] e.t = "Variable" -> env[e.k]
      [] e.t = "Add" -> Eval(e.a[1], env) + Eval(e.a[2], env)
      [] e.t = "Subtract" -> Eval(e.a[1], env) - Eval(e.a[2], env)
      [] e.t = "Multiply" -> Eval(e.a[1], env) * Eval(e.a[2], env)
      [] e.t = "Minus" -> 0 - Eval(e.a[1], env)
      [] e.t = "Power" -> IntPow(Eval(e.a[1], env), Eval(e.a[2], env))
Envs == [{"x", "y", "z"} -> (0 - MaxVal)..MaxVal]

(* -------------------------------------------------------- the properties *)
\* C1: simplify is idempotent: whenever simplify(e) returns, simplify applied
\* to that result returns a tree that renders to the same text.
C1_Idempotent ==
    op = "resimplify" => ~IsError(out) /\ Render(out) = Render(expr)

\* C1 (the case): simplify(0 - 2) is Minus(Constant(2)), rendered '-2'; simplify
\* of that is a Constant holding the tree -1 * 2.
C1_Witness ==
    /\ op = "resimplify"
    /\ expr = Minus(Int_(2))
    /\ Render(expr) = "-2"
    /\ Render(out) = "-1 * 2"

\* C2: derive never fails with the 'Derivation not implemented' error on a
\* tree of the nine variants.
C2_DeriveImplemented ==
    op = "derive" => out # NotImplementedError

\* C2 (the case): derive(0 - x, x) raises: 0 - x simplifies to Minus(x), for
\* which derive has no rule.
C2_Witness ==
    /\ op = "derive"
    /\ expr = Subtract(Int_(0), x)
    /\ other = x
    /\ out = NotImplementedError

\* C3: simplify is total: on every well-formed tree it returns an expression
\* and raises no error.
C3_SimplifyTotal ==
    op = "simplify" => ~IsError(out)

\* C3 (the case): simplify(2 / 0) raises ZeroDivisionError.
C3_Witness ==
    /\ op = "simplify"
    /\ expr = Divide(Int_(2), Int_(0))
    /\ out = ZeroDivisionError

\* C4: every call of simplify and of derive terminates: the nesting of the
\* calls never reaches the depth at which the interpreter gives up.
C4_Terminates ==
    op \in {"simplify", "resimplify", "derive"} => out # RecursionError

\* C4 (witness): derive(x ** x, x) has returned; it takes the Power rule,
\* and its simplifications take the factor grouping that rebuilds and
\* re-simplifies the product x * x ** -1.
C4_Witness ==
    /\ op = "derive"
    /\ expr = Power(x, x)
    /\ other = x
    /\ Render(out) = "(ln(x) + 1) * x ** x"

\* C5: a == b is true exactly when a and b render to the same text.
C5_EqualityIsTextual ==
    op = "compare" => ((out = True_) <=> TextEq(expr, other))

\* C5 (the case): (x + y) + z and x + (y + z) both render 'x + y + z' and
\* compare unequal.
C5_Witness ==
    /\ op = "compare"
    /\ expr = Add(Add(x, y), z)
    /\ other = Add(x, Add(y, z))
    /\ Render(expr) = "x + y + z"
    /\ Render(other) = "x + y + z"
    /\ out = False_

\* C6: every product of simplify(e) holds at most one Constant factor, and
\* that factor is the leftmost one.
C6_ConstantFoldedLeft ==
    (op = "simplify" /\ ~IsError(out)) =>
        \A p \in Products(out) :
            LET fs == Flat(p) IN
            /\ Cardinality({i \in 1..Len(fs) : IsConstant(fs[i])}) <= 1
            /\ \A i \in 2..Len(fs) : ~IsConstant(fs[i])

\* C6 (the case): simplify((x * 2) * (y * 3)) keeps two Constant factors,
\* the second one in the middle of the product.
C6_Witness ==
    /\ op = "simplify"
    /\ expr = Multiply(Multiply(x, Int_(2)), Multiply(y, Int_(3)))
    /\ Render(out) = "2 * x * 3 * y"

\* C7: in every Multiply node of simplify(e) the factors have pairwise
\* different rendered bases.
C7_BasesGrouped ==
    (op = "simplify" /\ ~IsError(out)) =>
        \A m \in {m \in Subterms(out) : IsMultiply(m)} :
            LET fs == Flat(m) IN
            \A i, j \in 1..Len(fs) : i # j => BaseText(fs[i]) # BaseText(fs[j])

\* C7 (the case): simplify(Minus(Constant(-1))) holds the product -1 * -1,
\* two factors of base -1.
C7_Witness ==
    /\ op = "simplify"
    /\ expr = Minus(Int_(-1))
    /\ Render(out) = "-1 * -1"

\* C8: simplify(Minus(Constant(c))) is the Constant holding the number -1 * c,
\* and every Constant node of a simplify result holds a number.
C8_ConstantsHoldNumbers ==
    (op = "simplify" /\ ~IsError(out)) =>
        /\ \A c \in Subterms(out) : IsConstant(c) => IsNumber(c)
        /\ (IsMinus(expr) /\ IsNumber(expr.a[1])) => out = NumMul(Int_(-1), expr.a[1])

\* C8 (the case): simplify(Minus(Constant(2))) is a Constant that holds the
\* tree Multiply(Constant(-1), Constant(2)).
C8_Witness ==
    /\ op = "simplify"
    /\ expr = Minus(Int_(2))
    /\ out = ConstantOf(Multiply(Int_(-1), Int_(2)))

\* C9: on integer arithmetic simplify preserves the value: under every
\* assignment of integers to the variables simplify(e) evaluates to the same
\* integer as e.
C9_ValuePreserved ==
    (op = "simplify" /\ ~IsError(out)) =>
        \A env \in Envs :
            Evaluable(expr, env) =>
                Evaluable(out, env) /\ Eval(out, env) = Eval(expr, env)

\* C9 (the case): ((x - y) - z) * (x - (y - z)) is simplified to
\* (x - (y - z)) ** 2, which differs from it at x = 0, y = 0, z = 1.
C9_Witness ==
    /\ op = "simplify"
    /\ expr = Multiply(Subtract(Subtract(x, y), z), Subtract(x, Subtract(y, z)))
    /\ out = Power(Subtract(x, Subtract(y, z)), Int_(2))
    /\ LET env == [v \in {"x", "y", "z"} |-> IF v = "z" THEN 1 ELSE 0]
       IN Eval(expr, env) = 0 - 1 /\ Eval(out, env) = 1

\* C10: the derivative of an expression in which var does not occur renders
\* as '0', whenever derive returns.
C10_VarFreeDerivesToZero ==
    (op = "derive" /\ ~IsError(out) /\ ~Occurs(other, expr)) => Render(out) = "0"

\* C10 (the case): derive(y / 2, x) renders '-0.0'.
C10_Witness ==
    /\ op = "derive"
    /\ expr = Divide(y, Int_(2))
    /\ other = x
    /\ Render(out) = "-0.0"
====
